---- MODULE Spec2Model ----
(***************************************************************************)
(* Model of genetic_algorithm.py: the fitness evaluator, the two-point     *)
(* crossover with per-gene mutation, add_children, select_fittest,         *)
(* avg_fitness, optimize and get_optimal.                                  *)
(*                                                                         *)
(* Python lists of chromosomes are sequences (population[0] of the code is *)
(* population[1] here).  Weight vectors and data rows keep the code's      *)
(* 0-based index: they are functions on 0..GeneCount-1.  A chromosome is a *)
(* record [id, weights, fitness]; id is the object's identity, so          *)
(* list.remove(x), which removes the first element equal to x, removes the *)
(* first element with x's id.                                              *)
(*                                                                         *)
(* Probabilities are in percent: random.uniform(0, 1) <= 0.5 is a roll     *)
(* <= 50 drawn from RollSamples.                                           *)
(***************************************************************************)
EXTENDS Integers, Sequences, FiniteSets

VARIABLES
    pc,                 \* position of the running function
    population,         \* the list `population`
    nextId,             \* identity given to the next Chromosome() constructed
    data,               \* rows of the data file, in file order
    chromosome,         \* evaluate_fitness: its argument
    row,                \* evaluate_fitness: loop index i
    success,            \* evaluate_fitness: success counter
    fail,               \* evaluate_fitness: fail counter
    examined,           \* evaluate_fitness: the row pairs (i, i+1) read so far
    chromosome1,        \* crossover: first parent
    chromosome2,        \* crossover: second parent
    cut1,               \* crossover: first cut point
    cut2,               \* crossover: second cut point
    child1,             \* crossover: first child
    child2,             \* crossover: second child
    gene,               \* crossover: loop index i
    draws,              \* crossover: per gene, the rolls mut1, mut2 and the lists of increments drawn
    mutations,          \* crossover: number of rolls that came out <= p so far
    input,              \* the list an operator was called with, as passed
    fittest,            \* select_fittest: survivor list
    c,                  \* select_fittest: loop counter
    rounds,             \* select_fittest: len(population) / 2, taken once by range()
    branch,             \* select_fittest: branch taken by the last iteration
    scanned,            \* select_fittest: the pool the last iteration chose from
    randoms,            \* select_fittest: iterations of this call that took the random branch
    calls,              \* add_children: arguments of its crossover calls, in order
    result,             \* value returned by the operator that ran
    initial_population, \* optimize: argument
    iterations,         \* optimize: argument
    statistics,         \* optimize: argument
    gen,                \* optimize: loop index i
    f,                  \* optimize: lines written to stat.txt, as <<fit_sum, total>>
    fault,              \* exception that ended the run, or "none"
    devs                \* random draws other than the first sample the run may still take

evalVars == <<chromosome, row, success, fail, examined>>
crossVars == <<chromosome1, chromosome2, cut1, cut2, child1, child2, gene, draws, mutations>>
selVars == <<fittest, c, rounds, branch, scanned, randoms>>
optVars == <<initial_population, iterations, statistics, gen, f, devs>>
vars == <<pc, population, nextId, data, evalVars, crossVars, input, selVars, calls,
          result, optVars, fault>>

-----------------------------------------------------------------------------
(* Program constants *)

GeneCount == 7
DefaultGene == 0
DefaultFitness == 0
Bias == 125000
CloseIdx == 3
MutationP == 50
Cut1Max == 3
Cut2Min == 4
Cut2Max == 6
MaxIncrement == 10
RandomP == 10

(* Bounds of the model *)

\* Rows of a data file, and the closing prices 1 .. MaxPrice they hold.
MaxRows == 3
MaxPrice == 3
\* Rolls of one crossover call that come out <= p when it runs gene by gene.
MaxMutations == 1
\* Individuals of a population handed to add_children, select_fittest, get_optimal,
\* and the fitness values 0 .. MaxFit they hold.
MaxPop == 4
MaxFit == 2
\* Random draws that may leave the first sample (the first weight vector, the
\* identity shuffle, FirstCrossDraw, the elitist branch): in one call of an
\* operator, in one run of optimize, in one run of optimize(10, 5).
MaxDevs == 2
OptDevs == 1
ToyDevs == 1
\* Arguments initial_population and iterations of optimize.
MaxInitial == 3
MaxIterations == 2

Genes == 0 .. (GeneCount - 1)

-----------------------------------------------------------------------------
(* Chromosome *)

\* Chromosome(): a new object with default weights and fitness.
NewChromosome(id) ==
    [id |-> id, weights |-> [g \in Genes |-> DefaultGene], fitness |-> DefaultFitness]

\* chromosome.set_fitness(v)
SetFitness(ch, v) == [ch EXCEPT !.fitness = v]

\* A weight vector whose genes all equal w.
Flat(w) == [g \in Genes |-> w]

\* Weight vectors drawn by set_random_weights in the model.
WeightSamples == {Flat(20000), Flat(10000), Flat(0)}

-----------------------------------------------------------------------------
(* evaluate_sigmoid, evaluate_fitness *)

RECURSIVE SumTo(_, _, _)
SumTo(weights, values, n) ==
    IF n = 0 THEN 0 ELSE SumTo(weights, values, n - 1) + weights[n - 1] * values[n - 1]

\* weighted_sum over zip(weights, values)
WeightedSum(weights, values) == SumTo(weights, values, GeneCount)

\* gamma = weighted_sum - 125000; res is the logistic of gamma, computed by the
\* branch that keeps exp's argument non-positive; res >= 0.5 exactly when
\* gamma >= 0 (for gamma <= -1 the logistic is below 0.27).
EvaluateSigmoid(weights, values) ==
    LET gamma == WeightedSum(weights, values) - Bias
    IN  IF gamma >= 0 THEN 1 ELSE -1

\* prc_diff = data[i + 1][3] - data[i][3], for the code's 0-based i
PrcDiff(d, i) == d[i + 2][CloseIdx] - d[i + 1][CloseIdx]

TallyNoFail(res, prc_diff) ==
    IF (res = 1 /\ prc_diff >= 0) \/ (res = -1 /\ prc_diff < 0)
    THEN <<1, 0>> ELSE <<0, 0>>

\* The loop body's if/else: <<added to success, added to fail>>.
Tally(res, prc_diff) ==
    IF (res = 1 /\ prc_diff >= 0) \/ (res = -1 /\ prc_diff < 0)
    THEN <<1, 0>> ELSE <<0, 1>>

\* range(len(data) - 1) still has an index i to give
EvalMore(i, d) == i < Len(d) - 1

RECURSIVE CountSuccess(_, _, _)
\* The success count of evaluate_fitness once its loop has run from index i on.
CountSuccess(weights, d, i) ==
    IF ~EvalMore(i, d) THEN 0
    ELSE Tally(EvaluateSigmoid(weights, d[i + 1]), PrcDiff(d, i))[1]
            + CountSuccess(weights, d, i + 1)

\* A data row whose features all equal v (so the closing price is v).
Row(v) == [g \in Genes |-> v]

RowSamples == {Row(v) : v \in 1 .. MaxPrice}

RECURSIVE SeqsUpTo(_, _)
\* All sequences over S of length at most n.
SeqsUpTo(S, n) ==
    IF n = 0 THEN {<<>>}
    ELSE LET shorter == SeqsUpTo(S, n - 1)
         IN  shorter \cup {Append(s, x) : s \in {t \in shorter : Len(t) = n - 1}, x \in S}

Datasets == SeqsUpTo(RowSamples, MaxRows)

\* Variables of the functions that are not running keep these values.
EvalIdle ==
    /\ chromosome = NewChromosome(0)
    /\ row = 0 /\ success = 0 /\ fail = 0 /\ examined = <<>>

CrossIdle ==
    /\ chromosome1 = NewChromosome(0) /\ chromosome2 = NewChromosome(0)
    /\ cut1 = 0 /\ cut2 = Cut2Min
    /\ child1 = NewChromosome(0) /\ child2 = NewChromosome(0)
    /\ gene = 0 /\ draws = <<>> /\ mutations = 0

SelIdle ==
    /\ fittest = <<>> /\ c = 0 /\ rounds = 0 /\ branch = "none" /\ scanned = <<>>
    /\ randoms = 0

OptIdle ==
    /\ initial_population = 0 /\ iterations = 0 /\ statistics = FALSE
    /\ gen = 0 /\ f = <<>> /\ devs = 0

EvalInit ==
    /\ pc = "eval_loop"
    /\ data \in Datasets
    /\ chromosome \in {[id |-> 1, weights |-> w, fitness |-> v] :
                          w \in WeightSamples, v \in {DefaultFitness, MaxRows}}
    /\ row = 0 /\ success = 0 /\ fail = 0 /\ examined = <<>>
    /\ population = <<>> /\ nextId = 2
    /\ input = <<>> /\ calls = <<>> /\ result = <<>> /\ fault = "none"
    /\ CrossIdle /\ SelIdle /\ OptIdle

\* One iteration of the loop of evaluate_fitness.
EvalStep ==
    /\ pc = "eval_loop"
    /\ EvalMore(row, data)
    /\ LET res == EvaluateSigmoid(chromosome.weights, data[row + 1])
           t == Tally(res, PrcDiff(data, row))
       IN  /\ success' = success + t[1]
           /\ fail' = fail + t[2]
    /\ examined' = Append(examined, <<row, row + 1>>)
    /\ row' = row + 1
    /\ UNCHANGED <<pc, population, nextId, data, chromosome, crossVars, input, selVars,
                   calls, result, optVars, fault>>

\* The loop is over: chromosome.set_fitness(success).
EvalFinish ==
    /\ pc = "eval_loop"
    /\ ~EvalMore(row, data)
    /\ chromosome' = SetFitness(chromosome, success)
    /\ pc' = "eval_done"
    /\ UNCHANGED <<population, nextId, data, row, success, fail, examined, crossVars,
                   input, selVars, calls, result, optVars, fault>>

EvalNext == EvalStep \/ EvalFinish

SpecEval == EvalInit /\ [][EvalNext]_vars

\* C4 as stated: for every dataset of L rows the loop reads exactly the L-1 pairs
\* (t, t+1), success + fail = L-1, the stored fitness is the success count and lies
\* in [0, L-1], and a dataset of fewer than 2 rows gives fitness 0.
C4_AsStated ==
    pc = "eval_done" =>
        LET L == Len(data)
        IN  /\ Len(examined) = L - 1
            /\ success + fail = L - 1
            /\ chromosome.fitness = success
            /\ chromosome.fitness \in 0 .. (L - 1)
            /\ (L < 2 => chromosome.fitness = 0)

\* C4 amended: for a dataset of L >= 1 rows the loop reads exactly the pairs
\* (t, t+1) for t = 0 .. L-2 in order, success + fail = L-1, and the stored
\* fitness is the success count, in [0, L-1]; for an empty dataset it reads no
\* pair and both counters are 0; for fewer than 2 rows the fitness is 0 and no
\* error is raised.
C4_FitnessCounts ==
    pc = "eval_done" =>
        LET L == Len(data)
            n == IF L >= 1 THEN L - 1 ELSE 0
        IN  /\ examined = [t \in 1 .. n |-> <<t - 1, t>>]
            /\ success + fail = n
            /\ chromosome.fitness = success
            /\ chromosome.fitness \in 0 .. n
            /\ (L < 2 => chromosome.fitness = 0)
            /\ fault = "none"

\* A finished evaluation of a 3-row dataset with one success and one failure.
C4_Witness ==
    /\ pc = "eval_done"
    /\ Len(data) = 3
    /\ success = 1 /\ fail = 1
    /\ chromosome.fitness = 1

-----------------------------------------------------------------------------
(* crossover *)

\* random.uniform(0, 1) in percent: the two outcomes on either side of p.
RollSamples == {MutationP, MutationP + 1}

\* random.randint(0, 10)
Increments == 0 .. MaxIncrement

\* Gene i of child1 after the loop body ran for i: mutation when mut <= p,
\* otherwise the copy by segment (chromosome1, chromosome2, chromosome1).
ChildGene1(i, p1, p2, k1, k2, child, mut, inc) ==
    IF mut <= MutationP
    THEN child.weights[i] + inc
    ELSE IF i < k1 THEN p1.weights[i]
         ELSE IF k1 <= i /\ i < k2 THEN p2.weights[i]
         ELSE p1.weights[i]

ChildGene2Unmirrored(i, p1, p2, k1, k2, child, mut, inc) ==
    IF mut <= MutationP
    THEN child.weights[i] + inc
    ELSE IF i < k1 THEN p1.weights[i]
         ELSE IF k1 <= i /\ i < k2 THEN p2.weights[i]
         ELSE p1.weights[i]

\* Gene i of child2: mutation, or the copy by segment (chromosome2, chromosome1,
\* chromosome2).
ChildGene2(i, p1, p2, k1, k2, child, mut, inc) ==
    IF mut <= MutationP
    THEN child.weights[i] + inc
    ELSE IF i < k1 THEN p2.weights[i]
         ELSE IF k1 <= i /\ i < k2 THEN p1.weights[i]
         ELSE p2.weights[i]

\* A weight vector whose gene g is base + g.
Ramp(base) == [g \in Genes |-> base + g]

\* Parent pairs crossover is run on: genes that tell the two parents apart, the
\* first parent's inside the range a mutated gene can take, the second's outside.
ParentSamples ==
    { <<[id |-> 1, weights |-> Ramp(2), fitness |-> 0],
        [id |-> 2, weights |-> Ramp(200), fitness |-> 2]>> }

CrossInit ==
    /\ pc = "cross_start"
    /\ \E pp \in ParentSamples : chromosome1 = pp[1] /\ chromosome2 = pp[2]
    /\ cut1 = 0 /\ cut2 = Cut2Min
    /\ child1 = NewChromosome(0) /\ child2 = NewChromosome(0)
    /\ gene = 0 /\ draws = <<>> /\ mutations = 0
    /\ population = <<>> /\ nextId = 3 /\ data = <<>>
    /\ input = <<>> /\ calls = <<>> /\ result = <<>> /\ fault = "none"
    /\ EvalIdle /\ SelIdle /\ OptIdle

\* The cut points are drawn and the two children constructed.
CrossStart ==
    /\ pc = "cross_start"
    /\ cut1' \in 0 .. Cut1Max
    /\ cut2' \in Cut2Min .. Cut2Max
    /\ child1' = NewChromosome(nextId)
    /\ child2' = NewChromosome(nextId + 1)
    /\ nextId' = nextId + 2
    /\ gene' = 0
    /\ pc' = "cross_loop"
    /\ UNCHANGED <<population, data, evalVars, chromosome1, chromosome2, draws, mutations,
                   input, selVars, calls, result, optVars, fault>>

\* One iteration of the loop over the genes: both rolls, then each child's gene.
CrossGene ==
    /\ pc = "cross_loop"
    /\ gene < GeneCount
    /\ \E mut1 \in RollSamples, mut2 \in RollSamples :
          LET hit1 == mut1 <= MutationP
              hit2 == mut2 <= MutationP
              n == (IF hit1 THEN 1 ELSE 0) + (IF hit2 THEN 1 ELSE 0)
          IN  /\ mutations + n <= MaxMutations
              /\ mutations' = mutations + n
              /\ \E k1 \in (IF hit1 THEN Increments ELSE {0}),
                     k2 \in (IF hit2 THEN Increments ELSE {0}) :
                    /\ child1' = [child1 EXCEPT !.weights[gene] =
                          ChildGene1(gene, chromosome1, chromosome2, cut1, cut2,
                                     child1, mut1, k1)]
                    /\ child2' = [child2 EXCEPT !.weights[gene] =
                          ChildGene2(gene, chromosome1, chromosome2, cut1, cut2,
                                     child2, mut2, k2)]
                    /\ draws' = Append(draws, [mut1 |-> mut1, mut2 |-> mut2,
                                               inc1 |-> IF hit1 THEN <<k1>> ELSE <<>>,
                                               inc2 |-> IF hit2 THEN <<k2>> ELSE <<>>])
    /\ gene' = gene + 1
    /\ UNCHANGED <<pc, population, nextId, data, evalVars, chromosome1, chromosome2,
                   cut1, cut2, input, selVars, calls, result, optVars, fault>>

\* return [child1, child2]
CrossReturn ==
    /\ pc = "cross_loop"
    /\ gene = GeneCount
    /\ result' = <<child1, child2>>
    /\ pc' = "cross_done"
    /\ UNCHANGED <<population, nextId, data, evalVars, crossVars, input, selVars, calls,
                   optVars, fault>>

CrossNext == CrossStart \/ CrossGene \/ CrossReturn

SpecCross == CrossInit /\ [][CrossNext]_vars

\* The parent whose gene i the segment rule gives to a child whose first parent
\* is a and second parent is b.
C5_SegmentParent(i, a, b) == IF i < cut1 \/ i >= cut2 THEN a ELSE b

\* C5: for every gene index i the loop has handled and for each child, either the
\* roll was <= 0.5 and the gene is the default gene value plus the integer drawn in
\* [0,10], whatever the parents hold, or the roll was > 0.5 and the gene is the copy
\* of the segment parent's gene: (parentA, parentB, parentA) for child A and the
\* mirror for child B, with cut1 in [0,3] and cut2 in [4,6] shared by both.
C5_GeneByGene ==
    pc \in {"cross_loop", "cross_done"} =>
        /\ cut1 \in 0 .. 3
        /\ cut2 \in 4 .. 6
        /\ Len(draws) = gene
        /\ \A i \in 0 .. (gene - 1) :
              LET d == draws[i + 1]
              IN  /\ IF d.mut1 <= 50
                     THEN /\ Len(d.inc1) = 1
                          /\ d.inc1[1] \in 0 .. 10
                          /\ child1.weights[i] = DefaultGene + d.inc1[1]
                     ELSE /\ d.inc1 = <<>>
                          /\ child1.weights[i] =
                                C5_SegmentParent(i, chromosome1, chromosome2).weights[i]
                  /\ IF d.mut2 <= 50
                     THEN /\ Len(d.inc2) = 1
                          /\ d.inc2[1] \in 0 .. 10
                          /\ child2.weights[i] = DefaultGene + d.inc2[1]
                     ELSE /\ d.inc2 = <<>>
                          /\ child2.weights[i] =
                                C5_SegmentParent(i, chromosome2, chromosome1).weights[i]
        /\ \A i \in gene .. (GeneCount - 1) :
              child1.weights[i] = DefaultGene /\ child2.weights[i] = DefaultGene
        /\ (pc = "cross_done" => gene = 7 /\ result = <<child1, child2>>)

\* A finished crossover with cut1 > 0 in which child A holds a mutated gene, a gene
\* of each parent, and child B holds the mirror copies.
C5_Witness ==
    /\ pc = "cross_done"
    /\ cut1 = 2 /\ cut2 = 5
    /\ draws[1].mut1 <= MutationP /\ draws[1].inc1 = <<7>>
    /\ child1.weights[0] = 7
    /\ child1.weights[1] = 3 /\ child1.weights[3] = 203 /\ child1.weights[6] = 8
    /\ child2.weights[0] = 200 /\ child2.weights[3] = 5 /\ child2.weights[6] = 206

-----------------------------------------------------------------------------
(* add_children *)

\* All outcomes of the draws of one crossover call: the cut points, and per gene
\* the two rolls and the two increments.
CrossDraw(k1, k2, m1, m2, n1, n2) ==
    [cut1 |-> k1, cut2 |-> k2, mut1 |-> m1, mut2 |-> m2, inc1 |-> n1, inc2 |-> n2]

\* Every gene of both children mutates, by increment 0.
FirstCrossDraw ==
    CrossDraw(0, Cut2Min, Flat(MutationP), Flat(MutationP), Flat(0), Flat(0))

\* No gene mutates: both children are copies by segment, cut at 2 and 5.
CopyCrossDraw ==
    CrossDraw(2, 5, Flat(MutationP + 1), Flat(MutationP + 1), Flat(0), Flat(0))

\* Child 1 mutates its even genes by MaxIncrement, child 2 its odd genes.
MixedCrossDraw ==
    CrossDraw(Cut1Max, Cut2Max,
              [g \in Genes |-> IF g % 2 = 0 THEN MutationP ELSE MutationP + 1],
              [g \in Genes |-> IF g % 2 = 1 THEN MutationP ELSE MutationP + 1],
              Flat(MaxIncrement), Flat(MaxIncrement))

CrossDrawSamples == {FirstCrossDraw, CopyCrossDraw, MixedCrossDraw}

\* crossover(p1, p2) under the draws d; the children get identities id, id + 1.
Crossover(p1, p2, id, d) ==
    << [id |-> id,
        weights |-> [i \in Genes |-> ChildGene1(i, p1, p2, d.cut1, d.cut2,
                                          NewChromosome(id), d.mut1[i], d.inc1[i])],
        fitness |-> DefaultFitness],
       [id |-> id + 1,
        weights |-> [i \in Genes |-> ChildGene2(i, p1, p2, d.cut1, d.cut2,
                                          NewChromosome(id + 1), d.mut2[i], d.inc2[i])],
        fitness |-> DefaultFitness] >>

Identity(n) == [k \in 1 .. n |-> k]

Reversal(n) == [k \in 1 .. n |-> n + 1 - k]

Permutations(n) ==
    {q \in [1 .. n -> 1 .. n] : \A a, b \in 1 .. n : q[a] = q[b] => a = b}

\* Outcomes of random.shuffle on a list of n elements: every permutation of a list
\* of at most MaxPop elements, the identity and the reversal of a longer one.
Shuffles(n) == IF n <= MaxPop THEN Permutations(n) ELSE {Identity(n), Reversal(n)}

\* mid = int(len(population) / 2)
Mid(n) == n \div 2

RECURSIVE SumSeq(_)
SumSeq(s) == IF s = <<>> THEN 0 ELSE Head(s) + SumSeq(Tail(s))

RECURSIVE FlattenFirsts(_)
FlattenFirsts(ss) == IF ss = <<>> THEN <<>> ELSE <<Head(ss)[1]>> \o FlattenFirsts(Tail(ss))

RECURSIVE Flatten(_)
\* population.extend(children), for each pair of children in turn
Flatten(ss) == IF ss = <<>> THEN <<>> ELSE Head(ss) \o Flatten(Tail(ss))

\* add_children(population): shuffle, split at mid, cross half1[i] with half2[i],
\* extend the population by each pair of children.
AddChildren ==
    /\ pc = "add_start"
    /\ LET n == Len(population)
           mid == Mid(n)
       IN  \E q \in Shuffles(n), ds \in [1 .. mid -> CrossDrawSamples] :
              LET shuffled == [k \in 1 .. n |-> population[q[k]]]
                  half1 == SubSeq(shuffled, 1, mid)
                  half2 == SubSeq(shuffled, mid + 1, n)
                  children == [k \in 1 .. mid |->
                                  Crossover(half1[k], half2[k], nextId + 2 * (k - 1), ds[k])]
                  cost == (IF q = Identity(n) THEN 0 ELSE 1)
                          + SumSeq([k \in 1 .. mid |->
                                       IF ds[k] = FirstCrossDraw THEN 0 ELSE 1])
              IN  /\ cost <= devs
                  /\ devs' = devs - cost
                  /\ population' = shuffled \o Flatten(children)
                  /\ calls' = [k \in 1 .. mid |-> <<half1[k].id, half2[k].id>>]
                  /\ nextId' = nextId + 2 * mid
    /\ input' = population
    /\ pc' = "add_done"
    /\ UNCHANGED <<data, evalVars, crossVars, selVars, result, initial_population,
                   iterations, statistics, gen, f, fault>>

-----------------------------------------------------------------------------
(* select_fittest *)

\* Outcomes of random.randint(0, n - 1): every index of a pool of at most
\* 2 * MaxPop elements, the first and the last index of a longer one.
PickSamples(n) == IF n <= 2 * MaxPop THEN 0 .. (n - 1) ELSE {0, n - 1}

\* The index of the first element of s that is the object x.
IndexOf(s, x) == CHOOSE k \in 1 .. Len(s) : s[k].id = x.id /\ \A j \in 1 .. (k - 1) : s[j].id # x.id

RemoveNothing(s, x) == s

\* list.remove(x)
Remove(s, x) ==
    LET k == IndexOf(s, x) IN SubSeq(s, 1, k - 1) \o SubSeq(s, k + 1, Len(s))

Worse(x, best) == x.fitness < best.fitness

BetterOrEqual(x, best) == x.fitness >= best.fitness

\* if x.fitness > best_chromosome.fitness
Better(x, best) == x.fitness > best.fitness

RECURSIVE Scan(_, _, _)
\* for x in population from position k on, keeping the best so far
Scan(pool, k, best) ==
    IF k > Len(pool) THEN best
    ELSE Scan(pool, k + 1, IF Better(pool[k], best) THEN pool[k] ELSE best)

\* best_chromosome after the scan, which starts from population[0]
BestOf(pool) == Scan(pool, 1, pool[1])

RoundsUp(n) == (n + 1) \div 2

\* range(len(population) / 2), Python 2 integer division, evaluated once
Rounds(n) == n \div 2

SelectStart ==
    /\ pc = "sel_start"
    /\ fittest' = <<>>
    /\ c' = 0
    /\ rounds' = Rounds(Len(population))
    /\ branch' = "none"
    /\ scanned' = <<>>
    /\ randoms' = 0
    /\ input' = population
    /\ pc' = "sel_loop"
    /\ UNCHANGED <<population, nextId, data, evalVars, crossVars, calls, result,
                   optVars, fault>>

\* An iteration whose roll is <= p: a random element moves to fittest.
SelectRandom ==
    /\ pc = "sel_loop"
    /\ c < rounds
    /\ devs >= 1
    /\ \E roll \in {RandomP}, j \in PickSamples(Len(population)) :
          LET rnd_chromosome == population[j + 1]
          IN  /\ roll <= RandomP
              /\ fittest' = Append(fittest, rnd_chromosome)
              /\ population' = Remove(population, rnd_chromosome)
    /\ branch' = "random"
    /\ scanned' = population
    /\ c' = c + 1
    /\ randoms' = randoms + 1
    /\ devs' = devs - 1
    /\ UNCHANGED <<pc, nextId, data, evalVars, crossVars, input, rounds, calls, result,
                   initial_population, iterations, statistics, gen, f, fault>>

\* An iteration whose roll is > p: the best element moves to fittest.
SelectBest ==
    /\ pc = "sel_loop"
    /\ c < rounds
    /\ \E roll \in {RandomP + 1} :
          LET best_chromosome == BestOf(population)
          IN  /\ ~(roll <= RandomP)
              /\ population' = Remove(population, best_chromosome)
              /\ fittest' = Append(fittest, best_chromosome)
    /\ branch' = "best"
    /\ scanned' = population
    /\ c' = c + 1
    /\ UNCHANGED <<pc, nextId, data, evalVars, crossVars, input, rounds, randoms, calls,
                   result, optVars, fault>>

\* return fittest
SelectReturn ==
    /\ pc = "sel_loop"
    /\ c = rounds
    /\ result' = fittest
    /\ pc' = "sel_done"
    /\ UNCHANGED <<population, nextId, data, evalVars, crossVars, input, selVars, calls,
                   optVars, fault>>

-----------------------------------------------------------------------------
(* get_optimal *)

InsertDescBeforeTies(sorted, x) ==
    LET k == Cardinality({j \in 1 .. Len(sorted) : sorted[j].fitness > x.fitness})
    IN  SubSeq(sorted, 1, k) \o <<x>> \o SubSeq(sorted, k + 1, Len(sorted))

\* x placed in a list sorted by descending fitness, after the elements whose
\* fitness is not smaller: the sort is stable, reverse=True included.
InsertDesc(sorted, x) ==
    LET k == Cardinality({j \in 1 .. Len(sorted) : sorted[j].fitness >= x.fitness})
    IN  SubSeq(sorted, 1, k) \o <<x>> \o SubSeq(sorted, k + 1, Len(sorted))

RECURSIVE SortFrom(_, _, _)
SortFrom(s, k, sorted) ==
    IF k > Len(s) THEN sorted ELSE SortFrom(s, k + 1, InsertDesc(sorted, s[k]))

\* population.sort(key=lambda x: x.fitness, reverse=True)
SortDesc(s) == SortFrom(s, 1, <<>>)

\* get_optimal(population): sort in place, return population[0].
GetOptimal ==
    /\ pc = "get_optimal"
    /\ input' = population
    /\ population' = SortDesc(population)
    /\ IF Len(population) = 0
       THEN /\ fault' = "IndexError"
            /\ result' = <<>>
            /\ pc' = "failed"
       ELSE /\ result' = <<population'[1]>>
            /\ pc' = "got_optimal"
            /\ UNCHANGED fault
    /\ UNCHANGED <<nextId, data, evalVars, crossVars, selVars, calls, optVars>>

-----------------------------------------------------------------------------
(* The operators on their own, on every population within the bounds *)

\* All lists of at most n fitness values in 0 .. MaxFit.
FitnessLists(n) == SeqsUpTo(0 .. MaxFit, n)

\* The population whose k-th individual is object k, with fitness fs[k] and the
\* weight vector that scores it.
PopulationOf(fs) ==
    [k \in 1 .. Len(fs) |-> [id |-> k, weights |-> Flat(10000 * fs[k]), fitness |-> fs[k]]]

\* An unevaluated population of n individuals with pairwise different weights.
FreshPopulation(n) ==
    [k \in 1 .. n |-> [id |-> k, weights |-> Ramp(100 * k), fitness |-> DefaultFitness]]

OpsInit ==
    /\ \/ /\ pc = "add_start"
          /\ population \in {FreshPopulation(n) : n \in 0 .. MaxPop}
       \/ /\ pc \in {"sel_start", "get_optimal"}
          /\ population \in {PopulationOf(fs) : fs \in FitnessLists(MaxPop)}
    /\ nextId = Len(population) + 1
    /\ input = population
    /\ devs = MaxDevs
    /\ data = <<>> /\ calls = <<>> /\ result = <<>> /\ fault = "none"
    /\ EvalIdle /\ CrossIdle /\ SelIdle
    /\ initial_population = 0 /\ iterations = 0 /\ statistics = FALSE
    /\ gen = 0 /\ f = <<>>

OpsNext ==
    \/ AddChildren
    \/ SelectStart
    \/ SelectRandom
    \/ SelectBest
    \/ SelectReturn
    \/ GetOptimal

SpecOps == OpsInit /\ [][OpsNext]_vars

\* The identities of the objects in a list.
Ids(s) == {s[k].id : k \in 1 .. Len(s)}

\* The objects in a list.
Members(s) == {s[k] : k \in 1 .. Len(s)}

\* No object is in the list twice.
Distinct(s) == \A a, b \in 1 .. Len(s) : s[a].id = s[b].id => a = b

\* The least index of s at which the fitness is the greatest of s.
FirstMax(s) ==
    CHOOSE k \in 1 .. Len(s) :
        /\ \A j \in 1 .. Len(s) : s[j].fitness <= s[k].fitness
        /\ \A j \in 1 .. (k - 1) : s[j].fitness < s[k].fitness

\* C2: one call of select_fittest on a population of n individuals returns exactly
\* floor(n/2) survivors, no individual twice; at every iteration the survivors and
\* the individuals left in the input list are disjoint and together are exactly the
\* input individuals.
C2_WithoutReplacement ==
    pc \in {"sel_loop", "sel_done"} =>
        /\ Len(fittest) = c
        /\ Len(fittest) <= Len(input) \div 2
        /\ Distinct(fittest)
        /\ Ids(fittest) \cap Ids(population) = {}
        /\ Members(fittest) \cup Members(population) = Members(input)
        /\ Len(fittest) + Len(population) = Len(input)
        /\ (pc = "sel_done" => result = fittest /\ Len(result) = Len(input) \div 2)

\* select_fittest returned two survivors of a population of four, one picked at
\* random and one by the scan.
C2_Witness ==
    /\ pc = "sel_done"
    /\ Len(input) = 4
    /\ Len(result) = 2
    /\ devs = MaxDevs - 1
    /\ Len(population) = 2

\* C3: add_children on a population of N individuals leaves N + 2*floor(N/2)
\* individuals: the first N are the N originals in the shuffled order, element i of
\* its first half was crossed with element i of its second half, and each such call
\* added two newly constructed children; for odd N the last original is in no pair.
C3_AddChildren ==
    pc = "add_done" =>
        LET n == Len(input)
            mid == n \div 2
        IN  /\ Len(population) = n + 2 * (n \div 2)
            /\ Members(SubSeq(population, 1, n)) = Members(input)
            /\ Distinct(population)
            /\ Len(calls) = mid
            /\ \A i \in 1 .. mid :
                  /\ calls[i] = <<population[i].id, population[mid + i].id>>
                  /\ population[n + 2 * i - 1].id \notin Ids(input)
                  /\ population[n + 2 * i].id \notin Ids(input)
                  /\ \E d \in CrossDrawSamples :
                        <<population[n + 2 * i - 1], population[n + 2 * i]>> =
                            Crossover(population[i], population[mid + i],
                                      population[n + 2 * i - 1].id, d)
            /\ (n % 2 = 1 =>
                  \A i \in 1 .. mid : population[n].id \notin {calls[i][1], calls[i][2]})

\* add_children ran on three individuals in a shuffled order: one pair, two
\* children copied by segment from it, one individual unpaired.
C3_Witness ==
    /\ pc = "add_done"
    /\ Len(input) = 3
    /\ Len(population) = 5
    /\ population[1].id = 3
    /\ calls = <<(<<3, 1>>)>>
    /\ population[3].id = 2
    /\ population[4].weights[0] = 300 /\ population[4].weights[3] = 103

\* C6: on a population of 0 or 1 individuals add_children and select_fittest both
\* complete without failing and yield the population unchanged: the same
\* individuals, none added and none dropped.
C6_DegenerateUnchanged ==
    /\ (pc = "add_done" /\ Len(input) <= 1) => (population = input /\ fault = "none")
    /\ (pc = "sel_done" /\ Len(input) <= 1) => (result = input /\ fault = "none")

\* C9: on a non-empty population get_optimal returns an individual whose fitness is
\* at least that of every individual, and of those with the greatest fitness the
\* one that came first in the order the population was passed in.
C9_FirstOfTheFittest ==
    (pc = "got_optimal" /\ Len(input) > 0) =>
        /\ Len(result) = 1
        /\ \A k \in 1 .. Len(input) : result[1].fitness >= input[k].fitness
        /\ result[1] = input[FirstMax(input)]
        /\ Members(population) = Members(input)

\* get_optimal ran on a population whose greatest fitness is held by its second and
\* fourth individuals, and returned the second.
C9_Witness ==
    /\ pc = "got_optimal"
    /\ Len(input) = 4
    /\ input[1].fitness = 1 /\ input[2].fitness = 2
    /\ input[3].fitness = 0 /\ input[4].fitness = 2
    /\ result[1].id = 2

\* C10: after an iteration of select_fittest that took the elitist branch, the
\* individual it moved to the survivors has fitness at least that of every
\* individual of the pool it scanned, and of those with the greatest fitness it is
\* the first in the scan order.
C10_ElitistPick ==
    (pc \in {"sel_loop", "sel_done"} /\ branch = "best") =>
        LET chosen == fittest[Len(fittest)]
        IN  /\ \A k \in 1 .. Len(scanned) : chosen.fitness >= scanned[k].fitness
            /\ chosen = scanned[FirstMax(scanned)]
            /\ population = Remove(scanned, chosen)

\* An elitist iteration scanned a pool whose greatest fitness is held by its second
\* and third individuals, and moved the second.
C10_Witness ==
    /\ pc = "sel_loop"
    /\ branch = "best"
    /\ Len(scanned) = 3
    /\ scanned[1].fitness = 0 /\ scanned[2].fitness = 2 /\ scanned[3].fitness = 2
    /\ fittest[Len(fittest)] = scanned[2]

-----------------------------------------------------------------------------
(* create_population, evaluate_population, avg_fitness, optimize *)

\* The first sample of set_random_weights.
FirstWeights == Flat(20000)

\* create_population(size): size new chromosomes with the weights ws drawn.
CreatePopulation(size, id, ws) ==
    [k \in 1 .. size |-> [NewChromosome(id + k - 1) EXCEPT !.weights = ws[k]]]

\* evaluate_population(population, data_file): every chromosome is evaluated anew.
EvaluatePopulation(pop, d) ==
    [k \in 1 .. Len(pop) |-> SetFitness(pop[k], CountSuccess(pop[k].weights, d, 0))]

\* fit_sum and total of avg_fitness, whose result is fit_sum / float(total)
AvgFitness(pop) ==
    <<SumSeq([k \in 1 .. Len(pop) |-> pop[k].fitness]), Len(pop)>>

\* fit_sum / float(total) raises ZeroDivisionError
DivisionFails(pop) == Len(pop) = 0

\* a >= b for two averages <<fit_sum, total>> with total > 0
AvgGeq(a, b) == a[1] * b[2] >= b[1] * a[2]

\* The closing price rises strictly from row to row.
ToyData == <<Row(1), Row(2), Row(3)>>

OptInit ==
    /\ pc = "opt_start"
    /\ initial_population \in 0 .. MaxInitial
    /\ iterations \in 0 .. MaxIterations
    /\ statistics \in BOOLEAN
    /\ data = ToyData
    /\ devs = OptDevs
    /\ population = <<>> /\ nextId = 1 /\ gen = 0 /\ f = <<>>
    /\ input = <<>> /\ calls = <<>> /\ result = <<>> /\ fault = "none"
    /\ EvalIdle /\ CrossIdle /\ SelIdle

\* optimize(10, 5, data_file, statistics=True) on the rising data.
ToyInit ==
    /\ pc = "opt_start"
    /\ initial_population = 10
    /\ iterations = 5
    /\ statistics = TRUE
    /\ data = ToyData
    /\ devs = ToyDevs
    /\ population = <<>> /\ nextId = 1 /\ gen = 0 /\ f = <<>>
    /\ input = <<>> /\ calls = <<>> /\ result = <<>> /\ fault = "none"
    /\ EvalIdle /\ CrossIdle /\ SelIdle

\* The start of optimize: the initial population and, with statistics, the first
\* line of stat.txt.
OptCreate ==
    /\ pc = "opt_start"
    /\ \E ws \in [1 .. initial_population -> WeightSamples] :
          LET cost == SumSeq([k \in 1 .. initial_population |->
                                 IF ws[k] = FirstWeights THEN 0 ELSE 1])
          IN  /\ cost <= devs
              /\ devs' = devs - cost
              /\ population' = CreatePopulation(initial_population, nextId, ws)
    /\ nextId' = nextId + initial_population
    /\ IF statistics /\ DivisionFails(population')
       THEN /\ fault' = "ZeroDivisionError"
            /\ pc' = "opt_failed"
            /\ UNCHANGED f
       ELSE /\ f' = IF statistics THEN Append(f, AvgFitness(population')) ELSE f
            /\ pc' = IF 0 < iterations THEN "add_start" ELSE "opt_close"
            /\ UNCHANGED fault
    /\ UNCHANGED <<data, evalVars, crossVars, input, selVars, calls, result,
                   initial_population, iterations, statistics, gen>>

\* evaluate_population after add_children; select_fittest is called next.
OptEvaluate ==
    /\ pc = "add_done"
    /\ population' = EvaluatePopulation(population, data)
    /\ pc' = "sel_start"
    /\ UNCHANGED <<nextId, data, evalVars, crossVars, input, selVars, calls, result,
                   optVars, fault>>

\* population = select_fittest(population), the line of stat.txt, the end of the
\* loop body.
OptRecord ==
    /\ pc = "sel_done"
    /\ population' = result
    /\ IF statistics /\ DivisionFails(result)
       THEN /\ fault' = "ZeroDivisionError"
            /\ pc' = "opt_failed"
            /\ UNCHANGED <<f, gen>>
       ELSE /\ f' = IF statistics THEN Append(f, AvgFitness(result)) ELSE f
            /\ gen' = gen + 1
            /\ pc' = IF gen + 1 < iterations THEN "add_start" ELSE "opt_close"
            /\ UNCHANGED fault
    /\ UNCHANGED <<nextId, data, evalVars, crossVars, input, selVars, calls, result,
                   initial_population, iterations, statistics, devs>>

\* f.close(); return population
OptReturn ==
    /\ pc = "opt_close"
    /\ result' = population
    /\ pc' = "opt_done"
    /\ UNCHANGED <<population, nextId, data, evalVars, crossVars, input, selVars, calls,
                   optVars, fault>>

OptNext ==
    \/ OptCreate
    \/ AddChildren
    \/ OptEvaluate
    \/ SelectStart
    \/ SelectRandom
    \/ SelectBest
    \/ SelectReturn
    \/ OptRecord
    \/ OptReturn

Spec == OptInit /\ [][OptNext]_vars

SpecToy == ToyInit /\ [][OptNext]_vars

\* The loop body of optimize has run gen times and the next has not begun.
GenerationEnded == gen >= 1 /\ pc \in {"add_start", "opt_close", "opt_done"}

\* C1 as stated: for every initial size N and generation count, the population
\* held at the end of each generation has exactly N individuals, and so has the
\* population optimize returns.
C1_AsStated ==
    /\ GenerationEnded => Len(population) = initial_population
    /\ pc = "opt_done" => Len(result) = initial_population

\* C1 amended: the population held at the end of each generation has exactly
\* 2*floor(N/2) individuals, N for an even N and N-1 for an odd N; optimize
\* returns that population, and the N initial individuals when the generation
\* count is 0.
C1_SizeAfterGeneration ==
    /\ GenerationEnded => Len(population) = 2 * (initial_population \div 2)
    /\ pc = "add_done" => Len(population) = Len(input) + 2 * (Len(input) \div 2)
    /\ pc = "opt_done" =>
          /\ result = population
          /\ Len(result) = IF iterations = 0 THEN initial_population
                           ELSE 2 * (initial_population \div 2)

\* optimize returned after two generations from three initial individuals.
C1_Witness ==
    /\ pc = "opt_done"
    /\ initial_population = 3
    /\ iterations = 2
    /\ gen = 2
    /\ Len(result) = 2

\* C7: an empty population given to avg_fitness, from optimize with statistics
\* for any initial size and generation count, ends in a reported precondition
\* violation and never in a division by zero.
C7_EmptyGuarded ==
    /\ fault # "ZeroDivisionError"
    /\ pc = "opt_failed" => fault = "PreconditionViolation"

\* C8 as stated: optimize(10, 5) on the rising data raises nothing, and every
\* average written to stat.txt after a generation is at least the one written
\* before it, whatever the random draws were.
C8_AsStated ==
    /\ fault = "none"
    /\ \A k \in 1 .. (Len(f) - 1) : AvgGeq(f[k + 1], f[k])

\* The guard of some step of optimize holds: the run is not stuck.
CanStep ==
    \/ pc \in {"opt_start", "add_start", "add_done", "sel_start", "sel_done", "opt_close"}
    \/ pc = "sel_loop" /\ c = rounds
    \/ pc = "sel_loop" /\ c < rounds /\ Len(population) > 0

\* C8 amended: optimize(10, 5) on the rising data raises nothing, is never stuck
\* before it returns and returns after its five generations, having written one
\* average before the first generation and one after each; the average written
\* after a generation is at least the one written before it whenever no iteration
\* of that generation's select_fittest took the random branch.
C8_ElitistNonDecreasing ==
    /\ fault = "none"
    /\ gen <= iterations
    /\ Len(f) = (IF pc = "opt_start" THEN 0 ELSE gen + 1)
    /\ (pc # "opt_done" => CanStep)
    /\ (pc = "opt_done" => gen = iterations)
    /\ (GenerationEnded /\ randoms = 0) => AvgGeq(f[gen + 1], f[gen])

\* The second generation of optimize(10, 5) ended with all its selections elitist,
\* after a first generation in which a random pick had put a child of fitness 0
\* among the survivors: select_fittest was given individuals of fitness 0 and of
\* fitness 2, and the average stayed at 18/10.
C8_Witness ==
    /\ initial_population = 10
    /\ pc = "add_start"
    /\ gen = 2
    /\ randoms = 0
    /\ devs = 0
    /\ f = <<(<<0, 10>>), (<<18, 10>>), (<<18, 10>>)>>
    /\ \E a, b \in 1 .. Len(input) : input[a].fitness = 0 /\ input[b].fitness = 2

====
